---- MODULE Spec2Model ----
(***************************************************************************)
(* A model of src/task.py: the Task object (class Task), its context-      *)
(* manager protocol (__enter__ / __exit__), its log emission (doLog), its  *)
(* unit counters, its message lists and its rendering (__str__).           *)
(*                                                                         *)
(* One Task object is modelled.  Its attributes are the fields of the      *)
(* record `task`; every method is a pure operator from the task (and the   *)
(* call's inputs) to a result record                                       *)
(*     [task, raised, ret, emitted, sinkOut, written]                      *)
(* holding the task after the call, the exception the call raised (None    *)
(* when it returned), the value it returned, the lines doLog handed to the *)
(* log sink, what the sink received and the files the call wrote.  One     *)
(* action per method applies the operator.  toRecord is not in the source: *)
(* ToRecord follows section 4.6 of the specification and what fromJSON     *)
(* reads.                                                                  *)
(*                                                                         *)
(* Python's None is the empty tuple <<>>, a value x that may be None is    *)
(* carried as <<x>>.  Text is a tuple of characters, so that joining,      *)
(* slicing and measuring it are computed and not assumed.                  *)
(***************************************************************************)
EXTENDS Integers, Sequences, FiniteSets, TLC

VARIABLES
    task,       \* the Task object's attributes (a record, see New)
    clock,      \* the last value datetime.datetime.now() returned
    op,         \* the method the caller called last ("init" after construction)
    input,      \* the arguments of that call
    raised,     \* the exception that call raised, None when it returned
    ret,        \* the value that call returned
    emitted,    \* the lines that call's doLog handed to the log sink
    sinkOut,    \* what the log sink received from that call
    written,    \* the operand dump files that call wrote
    depth       \* how many with statements on the task are in their body

vars == <<task, clock, op, input, raised, ret, emitted, sinkOut, written, depth>>

\* ------------------------------------------------------------------ values

None == <<>>
Some(x) == <<x>>
Val(o) == o[1]

\* The value returned by a method that returns the task itself.
Self == Some("self")

\* self.status does not exist before __enter__, __exit__ or fromJSON set it.
Unset == "<no attribute>"

\* ------------------------------------------------------------------ bounds

\* datetime.datetime.now() returns one of 0 .. MaxTime.
MaxTime == 1
\* warnings and errors hold at most MaxMsgs strings each.
MaxMsgs == 3
\* unitsConsumed[type] stays within 0 .. MaxConsumed.
MaxConsumed == 130
\* At most MaxDepth with statements on the task are nested.
MaxDepth == 1

\* ------------------------------------------------------- program constants

\* secrets.randbits(31)
IdBits == 31
\* get_purpose(self, limit=160)
PurposeLimit == 160
\* get_returns(self, limit=80)
ReturnsLimit == 80

RECURSIVE MaxBits(_)
\* 2^n - 1, the greatest n-bit number.
MaxBits(n) == IF n = 0 THEN 0 ELSE 2 * MaxBits(n - 1) + 1

\* The values secrets.randbits(bits) can return: 0 .. 2^bits - 1, of which
\* the least and the greatest are drawn.
RandBits(bits) == {0, MaxBits(bits)}

\* ------------------------------------------------------------------- text

RECURSIVE Join(_, _)
\* sep.join(list) for a list of texts.
Join(list, sep) ==
    IF list = <<>> THEN <<>>
    ELSE IF Len(list) = 1 THEN list[1]
    ELSE list[1] \o sep \o Join(Tail(list), sep)

\* get_purpose / get_returns: str(value), cut to limit - 4 characters and
\* followed by " ..." when it is longer than limit - 4.
Truncate(text, limit) ==
    IF Len(text) > limit - 4
    THEN SubSeq(text, 1, limit - 4) \o <<" ", ".", ".", ".">>
    ELSE text

GetPurpose(t, limit) ==
    IF t.purpose = None THEN None ELSE Some(Truncate(Val(t.purpose), limit))

GetReturns(t, limit) ==
    IF t.returnValue = None THEN None ELSE Some(Truncate(Val(t.returnValue), limit))

\* print_arg for the operands modelled: None and texts.
PrintArg(arg) == IF arg = None THEN <<"N", "o", "n", "e">> ELSE Val(arg)

\* arg_list of __str__: the printed positional operands, then key=value for
\* the named ones; both are skipped when None or empty.
ArgList(t) ==
    (IF t.args # None /\ Val(t.args) # <<>>
     THEN [i \in 1 .. Len(Val(t.args)) |-> PrintArg(Val(t.args)[i])]
     ELSE <<>>)
    \o
    (IF t.kwargs # None /\ Val(t.kwargs) # <<>>
     THEN [i \in 1 .. Len(Val(t.kwargs)) |->
            Val(t.kwargs)[i].key \o <<"=">> \o PrintArg(Val(t.kwargs)[i].value)]
     ELSE <<>>)

\* The text a record carries in place of a live object x: str(x).
StrOf(x) == <<"str", x>>

\* A captured failure holds live objects (an exception class, an exception
\* and a traceback, as __exit__ stores them) and not their description.
Live(exception) == Len(exception.traceback) = 1

\* The status attribute exists.
HasStatus(t) == t.status # Unset

\* __str__: the parts of the rendered line, in order.  It reads self.status,
\* which raises AttributeError while the attribute does not exist, and it
\* passes a captured failure to traceback.format_exception, which raises
\* AttributeError on anything but live objects: callers test CanStr first.
CanStr(t) == HasStatus(t) /\ (t.exception = None \/ Live(Val(t.exception)))

Str(t) ==
    [status   |-> t.status,
     task_id  |-> t.id_,
     purpose  |-> GetPurpose(t, PurposeLimit),
     args     |-> Join(ArgList(t), <<",">>),
     elapsed  |-> IF t.endTime # None /\ t.startTime # None
                  THEN Some((Val(t.endTime) - Val(t.startTime)) * 1000)
                  ELSE None,
     returns  |-> IF t.returnValue # None THEN GetReturns(t, ReturnsLimit) ELSE None,
     raises   |-> t.exception]

\* The line doLog builds: str(self), or str(self) + " " + str(message).
Combined(t, message) == [self |-> Str(t), message |-> message]

\* ------------------------------------------------------------------ doLog

\* The forms of logMethod doLog tells apart: True, False, None, an object
\* with a write attribute, a callable, and anything else.
Sinks == {"True", "False", "None", "stream", "callable", "other"}

\* A stream's write and a callback are the caller's code: each call of
\* them may raise.  `fails` says whether this one does.
CanFail(logMethod) == logMethod \in {"stream", "callable"}

\* doLog(message): the exception it raises (None when it returns), the
\* line it built and what the sink received.
DoLog(t, message, fails) ==
    IF ~CanStr(t)
    THEN [raised |-> Some("AttributeError"), emitted |-> <<>>, sinkOut |-> <<>>]
    ELSE LET combined == Combined(t, message) IN
         CASE t.logMethod = "True" ->
                [raised |-> None, emitted |-> <<combined>>,
                 sinkOut |-> <<[to |-> "stdout", text |-> combined, newline |-> TRUE]>>]
           [] t.logMethod \in {"False", "None"} ->
                [raised |-> None, emitted |-> <<combined>>, sinkOut |-> <<>>]
           [] t.logMethod = "stream" ->
                IF fails
                THEN [raised |-> Some("SinkError"), emitted |-> <<>>, sinkOut |-> <<>>]
                ELSE [raised |-> None, emitted |-> <<combined>>,
                      sinkOut |-> <<[to |-> "stream", text |-> combined, newline |-> TRUE]>>]
           [] t.logMethod = "callable" ->
                IF fails
                THEN [raised |-> Some("SinkError"), emitted |-> <<>>, sinkOut |-> <<>>]
                ELSE [raised |-> None, emitted |-> <<combined>>,
                      sinkOut |-> <<[to |-> "callable", text |-> combined, newline |-> FALSE]>>]
           [] OTHER ->
                [raised |-> Some("RuntimeError"), emitted |-> <<>>, sinkOut |-> <<>>]

\* --------------------------------------------------------------- __init__

\* Task(purpose, logMethod, parent=parent) constructed at time now.  The
\* status attribute is not created.
New(purpose, logMethod, parent, now) ==
    [parent        |-> parent,
     parent_id     |-> None,
     id_           |-> None,
     purpose       |-> purpose,
     startTime     |-> Some(now),
     endTime       |-> None,
     unitsExpected |-> <<>>,
     unitsConsumed |-> <<>>,
     logMethod     |-> logMethod,
     warnings      |-> <<>>,
     errors        |-> <<>>,
     args          |-> None,
     kwargs        |-> None,
     returnValue   |-> None,
     exception     |-> None,
     status        |-> Unset]

\* What a method call gives: the task after it, the exception it raised,
\* the value it returned, the lines handed to the sink, what the sink got
\* and the files it wrote.
Result(t, exc, value, log, wrote) ==
    [task |-> t, raised |-> exc, ret |-> value,
     emitted |-> log.emitted, sinkOut |-> log.sinkOut, written |-> wrote]

NoLog == [raised |-> None, emitted |-> <<>>, sinkOut |-> <<>>]

\* Two doLog calls one after the other.
ThenLog(first, second) ==
    [raised |-> second.raised,
     emitted |-> first.emitted \o second.emitted,
     sinkOut |-> first.sinkOut \o second.sinkOut]

\* -------------------------------------------------------------- __enter__

EnterId == RandBits(IdBits)

\* (a variant that forgets a failure captured earlier)
EnteredClearsException(t, id, now) ==
    [t EXCEPT !.id_ = Some(id), !.startTime = Some(now), !.status = "BEGIN",
              !.exception = None]

Entered(t, id, now) ==
    [t EXCEPT !.id_ = Some(id), !.startTime = Some(now), !.status = "BEGIN"]

\* (a variant that renders and emits before it sets the status)
EnterLogsFirst(t, id, now, fails) ==
    LET t0  == [t EXCEPT !.id_ = Some(id), !.startTime = Some(now)]
        log == DoLog(t0, None, fails = 1)
    IN  IF log.raised # None THEN Result(t0, log.raised, None, log, {})
        ELSE Result(Entered(t, id, now), None, Self, log, {})

Enter(t, id, now, fails) ==
    LET t1  == Entered(t, id, now)
        log == DoLog(t1, None, fails = 1)
    IN  Result(t1, log.raised, IF log.raised = None THEN Self ELSE None, log, {})

\* --------------------------------------------------------------- __exit__

\* json.dumps(operands, default=str) of the operands modelled.
JsonValue(arg) == IF arg = None THEN <<"n", "u", "l", "l">> ELSE <<"'">> \o Val(arg) \o <<"'">>

JsonArgs(args) == [i \in 1 .. Len(args) |-> JsonValue(args[i])]

JsonKwargs(kwargs) ==
    IF kwargs = None THEN <<<<"n", "u", "l", "l">>>>
    ELSE [i \in 1 .. Len(Val(kwargs)) |->
            <<"'">> \o Val(kwargs)[i].key \o <<"'", ":">> \o JsonValue(Val(kwargs)[i].value)]

\* (a variant without the test on args: None is dumped as null)
WriteOperandsAlways(t, broken) ==
    IF broken = "args" THEN [raised |-> Some("OSError"), written |-> {}]
    ELSE LET a == [name |-> <<"task", t.id_, ".args.json">>,
                   content |-> IF t.args = None THEN <<<<"n", "u", "l", "l">>>>
                               ELSE JsonArgs(Val(t.args))]
             k == [name |-> <<"task", t.id_, ".kwargs.json">>,
                   content |-> JsonKwargs(t.kwargs)]
         IN  IF broken = "kwargs" THEN [raised |-> Some("OSError"), written |-> {a}]
             ELSE [raised |-> None, written |-> {a, k}]

\* _write_operands: nothing when args is None; else task<id>.args.json, then
\* task<id>.kwargs.json.  `broken` names the file whose writing raises
\* ("none" when both are written).
WriteOperands(t, broken) ==
    IF t.args = None THEN [raised |-> None, written |-> {}]
    ELSE IF broken = "args" THEN [raised |-> Some("OSError"), written |-> {}]
    ELSE LET a == [name |-> <<"task", t.id_, ".args.json">>,
                   content |-> JsonArgs(Val(t.args))]
             k == [name |-> <<"task", t.id_, ".kwargs.json">>,
                   content |-> JsonKwargs(t.kwargs)]
         IN  IF broken = "kwargs" THEN [raised |-> Some("OSError"), written |-> {a}]
             ELSE [raised |-> None, written |-> {a, k}]

\* str(traceback)
StrTraceback(tb) == <<"<", "t", "b", " ", Val(tb), ">">>

\* (a variant with the test inverted)
ExitStatusInverted(exc_type) == IF exc_type = None THEN "FAIL " ELSE "END  "

ExitStatus(exc_type) == IF exc_type # None THEN "FAIL " ELSE "END  "

\* The value __exit__ returns: it has no return statement.
ExitReturn == None

\* (a variant that keeps an endTime already recorded)
EndedOnce(t, now) == IF t.endTime = None THEN [t EXCEPT !.endTime = Some(now)] ELSE t

\* self.endTime = datetime.datetime.now()
Ended(t, now) == [t EXCEPT !.endTime = Some(now)]

\* (a variant that leaves the status as the closing lines showed it)
ClosedKeepsStatus(t) == t

\* self.status = 'DONE'
Closed(t) == [t EXCEPT !.status = "DONE"]

\* __exit__(exc_type, exc_value, traceback) at time now.
Exit(t, exc_type, exc_value, traceback, now, broken, fails) ==
    LET t1 == Ended(t, now)
        t2 == IF exc_type # None
              THEN [t1 EXCEPT !.status = ExitStatus(exc_type),
                              !.exception = Some([exc_type |-> exc_type,
                                                  exc_value |-> exc_value,
                                                  traceback |-> traceback])]
              ELSE [t1 EXCEPT !.status = ExitStatus(exc_type)]
        wr == IF exc_type # None THEN WriteOperands(t2, broken)
              ELSE [raised |-> None, written |-> {}]
        log1 == DoLog(t2, None, fails = 1)
        log2 == IF exc_type # None
                THEN ThenLog(log1, DoLog(t2, Some(StrTraceback(traceback)), fails = 2))
                ELSE log1
    IN  IF wr.raised # None THEN Result(t2, wr.raised, None, NoLog, wr.written)
        ELSE IF log1.raised # None THEN Result(t2, log1.raised, None, log1, wr.written)
        ELSE IF log2.raised # None THEN Result(t2, log2.raised, None, log2, wr.written)
        ELSE Result(Closed(t2), None, ExitReturn, log2, wr.written)

\* The with statement around the task: what its caller sees propagate once
\* __exit__ is over.  An exception __exit__ raises replaces the one in
\* flight; else the one in flight goes on unless __exit__ returned a true
\* value.
Propagates(exc_type, r) ==
    IF r.raised # None THEN r.raised
    ELSE IF exc_type # None /\ r.ret = None THEN exc_type
    ELSE None

\* ------------------------------------------------ expectUnits, consumeUnits

\* d[key] = value on a dict.
DictSet(d, key, value) == (key :> value) @@ d

\* (a variant that keeps the consumed count of a type already registered)
ExpectUnitsKeepsConsumed(t, unitType, unitCount) ==
    Result([t EXCEPT !.unitsExpected = DictSet(t.unitsExpected, unitType, unitCount),
                     !.unitsConsumed =
                        IF unitType \in DOMAIN t.unitsConsumed THEN t.unitsConsumed
                        ELSE DictSet(t.unitsConsumed, unitType, 0)],
           None, None, NoLog, {})

\* (a variant that registers the expected count only)
ExpectUnitsOnlyExpected(t, unitType, unitCount) ==
    Result([t EXCEPT !.unitsExpected = DictSet(t.unitsExpected, unitType, unitCount)],
           None, None, NoLog, {})

ExpectUnits(t, unitType, unitCount) ==
    Result([t EXCEPT !.unitsExpected = DictSet(t.unitsExpected, unitType, unitCount),
                     !.unitsConsumed = DictSet(t.unitsConsumed, unitType, 0)],
           None, None, NoLog, {})

\* (a variant that counts from zero for a type it does not know)
ConsumeUnitsFromZero(t, unitType, unitCount) ==
    Result([t EXCEPT !.unitsConsumed =
                DictSet(t.unitsConsumed, unitType,
                        (IF unitType \in DOMAIN t.unitsConsumed
                         THEN t.unitsConsumed[unitType] ELSE 0) + unitCount)],
           None, None, NoLog, {})

\* self.unitsConsumed[unitType] += unitCount reads the entry first.
ConsumeUnits(t, unitType, unitCount) ==
    IF unitType \notin DOMAIN t.unitsConsumed
    THEN Result(t, Some("KeyError"), None, NoLog, {})
    ELSE Result([t EXCEPT !.unitsConsumed =
                    DictSet(t.unitsConsumed, unitType, t.unitsConsumed[unitType] + unitCount)],
                None, None, NoLog, {})

\* ------------------------------------------------------ arguments, returns

Arguments(t, args, kwargs) ==
    Result([t EXCEPT !.args = Some(args), !.kwargs = Some(kwargs)], None, Self, NoLog, {})

Returns(t, value) ==
    Result([t EXCEPT !.returnValue = value], None, value, NoLog, {})

\* ------------------------------------------------- info, warning, error

\* A message is a str (list = FALSE, text its characters) or a list of str
\* (list = TRUE, items its elements).
AsString(message) ==
    IF message.list THEN Join(message.items, <<"\n">>) ELSE message.text

AsList(message) ==
    IF message.list THEN message.items ELSE <<message.text>>

\* (a variant that keeps the message as a warning)
InfoAccumulates(t, message, fails) ==
    LET log == DoLog(t, Some(AsString(message)), fails = 1)
    IN  IF log.raised # None THEN Result(t, log.raised, None, log, {})
        ELSE Result([t EXCEPT !.warnings = t.warnings \o AsList(message)],
                    None, None, log, {})

Info(t, message, fails) ==
    LET log == DoLog(t, Some(AsString(message)), fails = 1)
    IN  Result(t, log.raised, None, log, {})

\* (a variant that appends the joined text as one element)
WarningAppendsJoined(t, message, fails) ==
    LET log == DoLog(t, Some(AsString(message)), fails = 1)
    IN  IF log.raised # None THEN Result(t, log.raised, None, log, {})
        ELSE Result([t EXCEPT !.warnings = Append(t.warnings, AsString(message))],
                    None, None, log, {})

Warning(t, message, fails) ==
    LET log == DoLog(t, Some(AsString(message)), fails = 1)
    IN  IF log.raised # None THEN Result(t, log.raised, None, log, {})
        ELSE Result([t EXCEPT !.warnings = t.warnings \o AsList(message)],
                    None, None, log, {})

\* (a variant that accumulates before it emits)
ErrorAccumulatesFirst(t, message, fails) ==
    LET t1  == [t EXCEPT !.errors = t.errors \o AsList(message)]
        log == DoLog(t1, Some(AsString(message)), fails = 1)
    IN  Result(t1, log.raised, None, log, {})

Error(t, message, fails) ==
    LET log == DoLog(t, Some(AsString(message)), fails = 1)
    IN  IF log.raised # None THEN Result(t, log.raised, None, log, {})
        ELSE Result([t EXCEPT !.errors = t.errors \o AsList(message)],
                    None, None, log, {})

HasErrors(t) == t.errors # None /\ Len(t.errors) > 0

\* (a variant that puts the other task's errors first)
CollectInFront(t, otherErrors) ==
    Result([t EXCEPT !.errors = otherErrors \o t.errors], None, None, NoLog, {})

\* collect(other): other is a Task, of which only the errors are read.
Collect(t, otherErrors) ==
    Result([t EXCEPT !.errors = t.errors \o otherErrors], None, None, NoLog, {})

\* ------------------------------------------------------------- reportUnit

\* '%lf' of num / den (num >= 0, den # 0): the sign, the whole part and six
\* decimals, rounded.
Abs(n) == IF n < 0 THEN 0 - n ELSE n

Decimal6(num, den) ==
    LET d     == Abs(den)
        whole == num \div d
        micro == (2 * 1000000 * (num % d) + d) \div (2 * d)
    IN  [negative |-> den < 0 /\ num > 0,
         whole    |-> IF micro = 1000000 THEN whole + 1 ELSE whole,
         micro    |-> IF micro = 1000000 THEN 0 ELSE micro]

\* '%5s' % status: padded on the left to five characters.
Pad5(status) == IF status = "DONE" THEN " DONE" ELSE status

\* reportUnit(unit, now).  The statements raise in this order: the status
\* attribute is missing; the unit was never registered; the expected count
\* is zero (float division by zero); no time has passed since startTime.
ReportUnit(t, unit, now) ==
    IF ~HasStatus(t) THEN Result(t, Some("AttributeError"), None, NoLog, {})
    ELSE IF unit \notin DOMAIN t.unitsConsumed \/ unit \notin DOMAIN t.unitsExpected
    THEN Result(t, Some("KeyError"), None, NoLog, {})
    ELSE IF t.unitsExpected[unit] = 0
    THEN Result(t, Some("ZeroDivisionError"), None, NoLog, {})
    ELSE IF t.startTime # None /\ now - Val(t.startTime) = 0
    THEN Result(t, Some("ZeroDivisionError"), None, NoLog, {})
    ELSE Result(t, None,
                Some([status   |-> Pad5(t.status),
                      purpose  |-> GetPurpose(t, PurposeLimit),
                      consumed |-> t.unitsConsumed[unit],
                      expected |-> t.unitsExpected[unit],
                      unit     |-> unit,
                      percent  |-> Decimal6(100 * t.unitsConsumed[unit],
                                              t.unitsExpected[unit]),
                      rate     |-> IF t.startTime # None
                                   THEN Some(Decimal6(t.unitsConsumed[unit],
                                                        now - Val(t.startTime)))
                                   ELSE None]),
                NoLog, {})

\* ------------------------------------------------------ toRecord, fromJSON

\* The characters of a decimal numeral.
DigitChars == <<"0", "1", "2", "3", "4", "5", "6", "7", "8", "9">>

IsDigit(c) == \E d \in 0 .. 9 : DigitChars[d + 1] = c

DigitOf(c) == CHOOSE d \in 0 .. 9 : DigitChars[d + 1] = c

RECURSIVE Numeral(_)
\* The decimal numeral of n >= 0, the text a record carries an id as.
Numeral(n) ==
    IF n < 10 THEN <<DigitChars[n + 1]>>
    ELSE Numeral(n \div 10) \o <<DigitChars[(n % 10) + 1]>>

RECURSIVE DecimalValue(_)
DecimalValue(text) ==
    IF text = <<>> THEN 0
    ELSE 10 * DecimalValue(SubSeq(text, 1, Len(text) - 1)) + DigitOf(text[Len(text)])

\* int(x, 0) for None or a text: TypeError for None; ValueError for a text
\* that is no numeral (in base 0 a numeral other than zero has no leading
\* zero).
IntBase0(x) ==
    IF x = None THEN [raised |-> Some("TypeError"), value |-> None]
    ELSE IF \/ Val(x) = <<>>
            \/ \E i \in 1 .. Len(Val(x)) : ~IsDigit(Val(x)[i])
            \/ (Len(Val(x)) > 1 /\ Val(x)[1] = "0")
    THEN [raised |-> Some("ValueError"), value |-> None]
    ELSE [raised |-> None, value |-> Some(DecimalValue(Val(x)))]

\* A timestamp as the text a record carries: seconds after the epoch, in
\* the zone "Z".
IsoFormat(time) == <<"T">> \o Numeral(time) \o <<"Z">>

\* arrow.get(text).datetime
ArrowGet(text) == DecimalValue(SubSeq(text, 2, Len(text) - 1))

\* One key of a record, carried only when `present`.
Field(key, present, value) == IF present THEN key :> value ELSE <<>>

\* The structured description a record carries of a captured failure.
Described(exception) ==
    IF exception = None THEN None
    ELSE IF ~Live(Val(exception)) THEN exception
    ELSE Some([exc_type  |-> StrOf(Val(Val(exception).exc_type)),
               exc_value |-> StrOf(Val(Val(exception).exc_value)),
               traceback |-> StrOf(Val(Val(exception).traceback))])

\* toRecord(): the record of a task.  The keys that fromJSON tests for
\* ('parent_id', 'startTime', 'endTime') are carried only when the value is
\* set, and so are the id and the status; ids are decimal numerals,
\* timestamps ISO texts with a zone, a captured failure is described under
\* the keys __str__ reads.
ToRecord(t) ==
    Field("parent_id", t.parent_id # None, Some(Numeral(Val(t.parent_id))))
    @@ Field("id", t.id_ # None, Some(Numeral(Val(t.id_))))
    @@ Field("startTime", t.startTime # None, IsoFormat(Val(t.startTime)))
    @@ Field("endTime", t.endTime # None, IsoFormat(Val(t.endTime)))
    @@ Field("status", t.status # Unset, t.status)
    @@ [purpose       |-> t.purpose,
        unitsExpected |-> t.unitsExpected,
        unitsConsumed |-> t.unitsConsumed,
        warnings      |-> t.warnings,
        errors        |-> t.errors,
        args          |-> t.args,
        kwargs        |-> t.kwargs,
        returnValue   |-> t.returnValue,
        exception     |-> Described(t.exception)]

\* obj.get(key): None when the key is missing.  (An empty list or dict and
\* None are one value here.)
Get(obj, key) == IF key \in DOMAIN obj THEN obj[key] ELSE None

\* str(None), the status fromJSON leaves when the record has none.
StrNone == "None"

\* fromJSON(obj): the attributes are assigned in the order of the code, so
\* that a record whose id cannot be read leaves all but parent_id as they
\* were.
FromJSON(t, obj) ==
    LET pid == IF "parent_id" \in DOMAIN obj THEN IntBase0(Get(obj, "parent_id"))
               ELSE [raised |-> None, value |-> None]
        id  == IntBase0(Get(obj, "id"))
        t1  == [t EXCEPT !.parent_id = pid.value]
        t2  == [t1 EXCEPT
                  !.id_           = id.value,
                  !.purpose       = Get(obj, "purpose"),
                  !.startTime     = IF "startTime" \in DOMAIN obj
                                    THEN Some(ArrowGet(obj["startTime"])) ELSE None,
                  !.endTime       = IF "endTime" \in DOMAIN obj
                                    THEN Some(ArrowGet(obj["endTime"])) ELSE None,
                  !.unitsExpected = Get(obj, "unitsExpected"),
                  !.unitsConsumed = Get(obj, "unitsConsumed"),
                  !.warnings      = Get(obj, "warnings"),
                  !.errors        = Get(obj, "errors"),
                  !.args          = Get(obj, "args"),
                  !.kwargs        = Get(obj, "kwargs"),
                  !.returnValue   = Get(obj, "returnValue"),
                  !.exception     = Get(obj, "exception"),
                  !.status        = IF "status" \in DOMAIN obj THEN obj["status"]
                                    ELSE StrNone]
    IN  IF pid.raised # None THEN Result(t, pid.raised, None, NoLog, {})
        ELSE IF id.raised # None THEN Result(t1, id.raised, None, NoLog, {})
        ELSE Result(t2, None, None, NoLog, {})

\* ---------------------------------------------------------------- inputs

\* (exc_type, exc_value, traceback) as the with statement passes them: all
\* None on the normal path, all set on a failing one.
NoFailure == <<None, None, None>>
Failures == {<<Some("ValueError"), Some("boom"), Some("tb1")>>,
             <<Some("KeyError"), Some("k"), Some("tb2")>>}

\* Which operand dump file cannot be written.
Broken == {"none", "args", "kwargs"}

\* (args, kwargs) of arguments(*args, **kwargs).
Operands == {<<<<>>, <<>>>>,
             <<<<Some(<<"x">>), None>>, <<[key |-> <<"k">>, value |-> Some(<<"v">>)]>>>>}

ReturnValues == {None, Some(<<"r">>)}

UnitTypes == {"rows", "bytes"}
UnitCounts == {0, 20, 30, 100}

Texts == {<<"a">>, <<"b">>}
Lists == {<<>>, <<<<"a">>>>, <<<<"a">>, <<"b">>>>, <<<<"b">>, <<"a">>>>}
Messages == {[list |-> FALSE, text |-> x, items |-> <<>>] : x \in Texts}
            \cup {[list |-> TRUE, text |-> <<>>, items |-> l] : l \in Lists}

Purposes == {Some(<<"j", "o", "b">>)}

\* A text of n characters: the digits 1, 2, ..., 9, 0, 1, ...
TextOfLen(n) == [i \in 1 .. n |-> DigitChars[(i % 10) + 1]]

\* Purposes around the lengths at which get_purpose cuts.
PurposeLengths == {3, 155, 156, 157, 160, 161, 200}
LongPurposes == {Some(TextOfLen(n)) : n \in PurposeLengths}

\* The task a child is constructed in: None, or a task that was opened.
Parents == {None, Some(Entered(New(Some(<<"t", "o", "p">>), "None", None, 0), MaxBits(IdBits), 0))}

\* Tasks whose records are at hand to be loaded: one that was constructed
\* and never opened, and one that was opened, warned and closed by a
\* failure.
FailedTask ==
    LET t0 == New(Some(<<"o", "l", "d">>), "None", None, 0)
        t1 == Enter(t0, 5, 0, 0).task
        t2 == Warning(t1, [list |-> FALSE, text |-> <<"w">>, items |-> <<>>], 0).task
    IN  Exit(t2, Some("KeyError"), Some("k"), Some("tb2"), 1, "none", 0).task

StoredTasks == {New(Some(<<"n", "e", "w">>), "None", None, 0), FailedTask}

\* ---------------------------------------------------------------- actions

\* datetime.datetime.now(): the wall clock does not run backwards.
Now == clock .. MaxTime

\* No time passes.
Still == {clock}

\* Which of a call's doLog calls (the first, the second) has its sink raise:
\* 0 for none.
Fails(n) == IF CanFail(task.logMethod) THEN 0 .. n ELSE {0}

\* The caller calls method `name` with `in`; r is what the call gives, d the
\* number of with statements then in their body.
Call(name, in, r, now, d) ==
    /\ depth' = d
    /\ task' = r.task
    /\ clock' = now
    /\ op' = name
    /\ input' = in
    /\ raised' = r.raised
    /\ ret' = r.ret
    /\ emitted' = r.emitted
    /\ sinkOut' = r.sinkOut
    /\ written' = r.written

\* `with task:` is entered: __enter__ is called; the body is entered when it
\* returns.
Open(ids, times) ==
    /\ depth < MaxDepth
    /\ \E id \in ids, now \in times, fails \in Fails(1) :
        LET r == Enter(task, id, now, fails) IN
        Call("__enter__", [id |-> id, now |-> now], r, now,
             IF r.raised = None THEN depth + 1 ELSE depth)

\* The body of `with task:` is left, normally (e = NoFailure) or by the
\* failure e: __exit__ is called with it.
Close(excs, times) ==
    /\ depth > 0
    /\ \E e \in excs, now \in times :
        \E broken \in (IF e[1] # None /\ task.args # None THEN Broken ELSE {"none"}),
           fails \in Fails(IF e[1] # None THEN 2 ELSE 1) :
            Call("__exit__",
                 [exc_type |-> e[1], exc_value |-> e[2], traceback |-> e[3],
                  now |-> now, broken |-> broken],
                 Exit(task, e[1], e[2], e[3], now, broken, fails), now, depth - 1)

SetArguments(operands) ==
    \E o \in operands :
        Call("arguments", [args |-> o[1], kwargs |-> o[2]], Arguments(task, o[1], o[2]), clock, depth)

SetReturns(values) ==
    \E v \in values : Call("returns", [value |-> v], Returns(task, v), clock, depth)

Expect(types, counts) ==
    \E u \in types, n \in counts :
        Call("expectUnits", [unitType |-> u, unitCount |-> n], ExpectUnits(task, u, n), clock, depth)

Consume(types, counts) ==
    \E u \in types, n \in counts :
        LET r == ConsumeUnits(task, u, n) IN
        /\ \A x \in DOMAIN r.task.unitsConsumed : r.task.unitsConsumed[x] <= MaxConsumed
        /\ Call("consumeUnits", [unitType |-> u, unitCount |-> n], r, clock, depth)

Report(types) ==
    \E u \in types, now \in 0 .. MaxTime :
        Call("reportUnit", [unit |-> u, now |-> now], ReportUnit(task, u, now), clock, depth)

LogInfo(messages) ==
    \E m \in messages, fails \in Fails(1) :
        Call("info", [message |-> m], Info(task, m, fails), clock, depth)

LogWarning(messages, cap) ==
    \E m \in messages, fails \in Fails(1) :
        LET r == Warning(task, m, fails) IN
        /\ Len(r.task.warnings) <= cap
        /\ Call("warning", [message |-> m], r, clock, depth)

LogError(messages, cap) ==
    \E m \in messages, fails \in Fails(1) :
        LET r == Error(task, m, fails) IN
        /\ Len(r.task.errors) <= cap
        /\ Call("error", [message |-> m], r, clock, depth)

CollectFrom(lists, cap) ==
    \E l \in lists :
        LET r == Collect(task, l) IN
        /\ Len(r.task.errors) <= cap
        /\ Call("collect", [other |-> l], r, clock, depth)

\* A record is loaded into the task: fromJSON(src.toRecord()), where src is
\* the task itself or one of `tasks`.
Restore(tasks) ==
    \E src \in tasks \cup {task} :
        LET obj == ToRecord(src) IN
        Call("fromJSON", [obj |-> obj], FromJSON(task, obj), clock, depth)

\* --------------------------------------------------------- specifications

\* The state after Task(purpose, logMethod, parent=parent) is constructed.
InitFrom(purposes, sinks, parents) ==
    /\ clock = 0
    /\ \E p \in purposes, s \in sinks, parent \in parents : task = New(p, s, parent, 0)
    /\ op = "__init__"
    /\ input = None
    /\ raised = None
    /\ ret = None
    /\ emitted = <<>>
    /\ sinkOut = <<>>
    /\ written = {}
    /\ depth = 0

\* The state after Task(purpose, logMethod) is constructed.
InitWith(purposes, sinks) ==
    /\ clock = 0
    /\ \E p \in purposes, s \in sinks : task = New(p, s, None, 0)
    /\ op = "__init__"
    /\ input = None
    /\ raised = None
    /\ ret = None
    /\ emitted = <<>>
    /\ sinkOut = <<>>
    /\ written = {}
    /\ depth = 0

\* Spec: every method in any order.  The scope is what is looked at: the
\* units and the messages draw from one input each, the log sink is a
\* callback (which may raise) or None.
MaxMsgsLife == 1

OneMessage == {[list |-> FALSE, text |-> <<"a">>, items |-> <<>>]}
OneFailure == {<<Some("ValueError"), Some("boom"), Some("tb1")>>}
OneOperands == {<<<<Some(<<"x">>), None>>, <<[key |-> <<"k">>, value |-> Some(<<"v">>)]>>>>}

Init == InitWith(Purposes, {"callable", "None"})

Next ==
    \/ Open({0}, Now)
    \/ Close({NoFailure} \cup OneFailure, Now)
    \/ SetArguments(OneOperands)
    \/ SetReturns(ReturnValues)
    \/ Expect({"rows"}, {100})
    \/ Consume({"rows"}, {100})
    \/ Report({"rows"})
    \/ LogInfo(OneMessage)
    \/ LogWarning(OneMessage, MaxMsgsLife)
    \/ LogError(OneMessage, MaxMsgsLife)
    \/ CollectFrom({<<<<"a">>>>}, MaxMsgsLife)

Spec == Init /\ [][Next]_vars

\* SpecScope: the scope of a task (__enter__, __exit__ and the operands and
\* return value they render and dump) on every form of log sink, with every
\* id and failure drawn.
InitScope == InitWith(Purposes, Sinks)

NextScope ==
    \/ Open(EnterId, Now)
    \/ Close({NoFailure} \cup Failures, Now)
    \/ SetArguments(Operands)
    \/ SetReturns(ReturnValues)

SpecScope == InitScope /\ [][NextScope]_vars

\* SpecUnits: the unit counters of a task, opened or not.
InitUnits == InitWith(Purposes, {"None"})

NextUnits ==
    \/ Open({0}, Still)
    \/ Close({NoFailure}, Still)
    \/ Expect(UnitTypes, UnitCounts)
    \/ Consume(UnitTypes, UnitCounts)
    \/ Report(UnitTypes)

SpecUnits == InitUnits /\ [][NextUnits]_vars

\* SpecMsgs: the messages of a task, before and after Open, on a log sink
\* that is a callback (which may raise), None, or none of the forms doLog
\* knows.
InitMsgs == InitWith(Purposes, {"callable", "None", "other"})

NextMsgs ==
    \/ Open({0}, Still)
    \/ LogInfo(Messages)
    \/ LogWarning(Messages, MaxMsgs)
    \/ LogError(Messages, MaxMsgs)
    \/ CollectFrom(Lists, MaxMsgs)

SpecMsgs == InitMsgs /\ [][NextMsgs]_vars

\* SpecRecord: a task constructed with or without a parent, every method
\* in any order, and records loaded into it.
InitRecord == InitFrom(Purposes, {"None"}, Parents)

NextRecord ==
    \/ Open({0}, Still)
    \/ Close({NoFailure} \cup OneFailure, Still)
    \/ SetArguments(OneOperands)
    \/ SetReturns(ReturnValues)
    \/ Expect({"rows"}, {100})
    \/ Consume({"rows"}, {100})
    \/ Report({"rows"})
    \/ LogInfo(OneMessage)
    \/ LogWarning(OneMessage, MaxMsgsLife)
    \/ LogError(OneMessage, MaxMsgsLife)
    \/ CollectFrom({<<<<"a">>>>}, MaxMsgsLife)
    \/ Restore(StoredTasks)

SpecRecord == InitRecord /\ [][NextRecord]_vars

\* SpecRender: tasks with purposes of many lengths are opened, given a
\* return value, report and are closed, on a callback that may raise.
InitRender == InitFrom(LongPurposes, {"callable"}, {None})

NextRender ==
    \/ Open({0}, Still)
    \/ Close({NoFailure}, Still)
    \/ SetReturns(ReturnValues)
    \/ Expect({"rows"}, {100})
    \/ Report({"rows"})
    \/ LogInfo(OneMessage)

SpecRender == InitRender /\ [][NextRender]_vars

\* ----------------------------------------------------------------- claims

\* What the caller of the with statement sees propagate after the last
\* call, an __exit__.
Propagated == Propagates(input.exc_type, [raised |-> raised, ret |-> ret])

\* The exception record __exit__ is to store for the failure it was given.
GivenFailure ==
    [exc_type |-> input.exc_type, exc_value |-> input.exc_value,
     traceback |-> input.traceback]

\* The sink shows lines: it is neither False nor None.
SinkShows == task.logMethod \in {"True", "stream", "callable"}

\* C1: immediately after Open (__enter__), on every form of log sink and
\* whether or not the emission of the BEGIN line raised, the status is BEGIN
\* and the id is set and lies in 0 .. 2^31 - 1.
C1_OpenSetsBeginAndId ==
    op = "__enter__" =>
        /\ task.status = "BEGIN"
        /\ task.id_ # None
        /\ Val(task.id_) >= 0
        /\ Val(task.id_) <= MaxBits(31)

\* An Open whose sink is none of the known forms: doLog raised, after the
\* greatest id was assigned.
C1_Witness ==
    /\ op = "__enter__"
    /\ task.logMethod = "other"
    /\ raised # None
    /\ task.id_ = Some(MaxBits(31))

\* C2: after a Close (__exit__) called with no failure has returned, the
\* status is DONE and endTime >= startTime, whatever calls came before.
C2_NormalCloseDone ==
    (op = "__exit__" /\ input.exc_type = None /\ raised = None) =>
        /\ task.status = "DONE"
        /\ task.endTime # None
        /\ task.startTime # None
        /\ Val(task.endTime) >= Val(task.startTime)

\* A normal Close, later than the Open, of a task on which units, messages,
\* operands and a return value were set.
C2_Witness ==
    /\ op = "__exit__"
    /\ input.exc_type = None
    /\ raised = None
    /\ task.id_ # None
    /\ Val(task.endTime) > Val(task.startTime)
    /\ task.args # None
    /\ task.returnValue # None
    /\ "rows" \in DOMAIN task.unitsConsumed
    /\ task.warnings # <<>>
    /\ task.errors # <<>>

\* C3: after a Close called with a failure, the exception record holds that
\* failure's kind, value and trace, none of them None, and the caller sees
\* that same failure propagate.  (Stated for a log sink that does not raise.)
C3_FailureKeptAndPropagated ==
    (op = "__exit__" /\ input.exc_type # None /\ ~CanFail(task.logMethod)) =>
        /\ task.exception = Some(GivenFailure)
        /\ input.exc_type # None /\ input.exc_value # None /\ input.traceback # None
        /\ Propagated = input.exc_type

\* C4: when a Close on a failing path cannot write an operand dump file, it
\* still emits its two closing lines, the status still reaches DONE and the
\* caller sees the original failure.  (Stated for a log sink that does not
\* raise.)
C4_DumpFailureDoesNotMask ==
    (op = "__exit__" /\ input.exc_type # None /\ input.broken # "none"
        /\ ~CanFail(task.logMethod)) =>
        /\ Len(emitted) = 2
        /\ task.status = "DONE"
        /\ Propagated = input.exc_type

\* C5 as claimed: BEGIN is set only by Open, Close acts only on a task whose
\* status is BEGIN, no step leaves DONE, and no other operation changes the
\* status.
C5_StatusOnlyForward ==
    [][/\ (task'.status = "BEGIN" /\ task.status # "BEGIN") => op' = "__enter__"
       /\ op' = "__exit__" => task.status = "BEGIN"
       /\ task.status = "DONE" => task'.status = "DONE"
       /\ op' \notin {"__enter__", "__exit__"} => task'.status = task.status]_vars

\* The status a Close shows in its lines and keeps when it raises.
ClosingStatus(exc_type) == IF exc_type # None THEN "FAIL " ELSE "END  "

\* C5 (amended): only Open and Close change the status.  Open sets BEGIN,
\* whatever the status was (a task that is DONE can be opened again).  Close
\* sets END on the normal path and FAIL on a failing one, shows that status
\* in every line it emits, and sets DONE when it returns; a Close that
\* raises leaves END or FAIL.
C5_StatusMachine ==
    [][/\ op' \notin {"__enter__", "__exit__"} => task'.status = task.status
       /\ op' = "__enter__" => task'.status = "BEGIN"
       /\ op' = "__exit__" =>
            /\ raised' = None => task'.status = "DONE"
            /\ raised' # None => task'.status = ClosingStatus(input'.exc_type)
            /\ \A i \in 1 .. Len(emitted') :
                 emitted'[i].self.status = ClosingStatus(input'.exc_type)]_vars

\* A task that was closed (DONE) and opened again is closed a second time.
C5_Witness ==
    /\ op = "__exit__"
    /\ raised = None
    /\ task.status = "DONE"
    /\ Val(task.startTime) > 0
    /\ task.warnings # <<>>

\* C6: a Close that returns has emitted, with the status not yet DONE, one
\* line showing END (normal path) or two lines showing FAIL, the second with
\* the trace (failing path); the status is DONE afterwards.  A sink that
\* shows lines received exactly these; False and None received nothing.
C6_CloseLinesBeforeDone ==
    (op = "__exit__" /\ raised = None) =>
        /\ task.status = "DONE"
        /\ \A i \in 1 .. Len(emitted) : emitted[i].self.status # "DONE"
        /\ input.exc_type = None =>
            /\ Len(emitted) = 1
            /\ emitted[1].self.status = "END  "
            /\ emitted[1].message = None
        /\ input.exc_type # None =>
            /\ Len(emitted) = 2
            /\ emitted[1].self.status = "FAIL "
            /\ emitted[1].message = None
            /\ emitted[2].self.status = "FAIL "
            /\ emitted[2].message = Some(StrTraceback(input.traceback))
            /\ emitted[2].self.raises = Some(GivenFailure)
        /\ Len(sinkOut) = (IF SinkShows THEN Len(emitted) ELSE 0)
        /\ \A i \in 1 .. Len(sinkOut) : sinkOut[i].text = emitted[i]

\* A failing Close that returned, on a callback.
C6_Witness ==
    /\ op = "__exit__"
    /\ raised = None
    /\ input.exc_type # None
    /\ task.logMethod = "callable"
    /\ Len(sinkOut) = 2
    /\ task.args # None

\* The unit types registered with expectUnits.
Registered(t) == DOMAIN t.unitsExpected

\* C7: consumeUnits for a unit type that was never registered raises
\* KeyError and leaves unitsExpected and unitsConsumed as they were, with no
\* entry for the type.
C7_ConsumeUnregistered ==
    [][(op' = "consumeUnits" /\ input'.unitType \notin Registered(task)) =>
        /\ raised' = Some("KeyError")
        /\ Registered(task') = Registered(task)
        /\ DOMAIN task'.unitsConsumed = DOMAIN task.unitsConsumed
        /\ input'.unitType \notin DOMAIN task'.unitsConsumed
        /\ \A u \in Registered(task) :
             /\ task'.unitsExpected[u] = task.unitsExpected[u]
             /\ task'.unitsConsumed[u] = task.unitsConsumed[u]]_vars

\* consumeUnits("bytes", 30) failed on a task that registered only "rows".
C7_Witness ==
    /\ op = "consumeUnits"
    /\ input.unitType = "bytes"
    /\ input.unitCount = 30
    /\ raised # None
    /\ Registered(task) = {"rows"}
    /\ task.unitsConsumed["rows"] = 20

\* C8: expectUnits(type, n) sets unitsExpected[type] = n and
\* unitsConsumed[type] = 0; consumeUnits(type, n) on a registered type
\* returns, adds n to unitsConsumed[type] (past the expected count too) and
\* keeps unitsExpected[type]; no call changes the counts of another type or
\* registers one.  So unitsExpected[type] is the count of the last
\* expectUnits and unitsConsumed[type] the sum consumed since.
C8_UnitCounts ==
    [][\A u \in UnitTypes :
        IF op' = "expectUnits" /\ input'.unitType = u
        THEN /\ u \in Registered(task')
             /\ task'.unitsExpected[u] = input'.unitCount
             /\ task'.unitsConsumed[u] = 0
        ELSE IF op' = "consumeUnits" /\ input'.unitType = u /\ u \in Registered(task)
        THEN /\ raised' = None
             /\ task'.unitsExpected[u] = task.unitsExpected[u]
             /\ task'.unitsConsumed[u] = task.unitsConsumed[u] + input'.unitCount
        ELSE /\ (u \in Registered(task')) = (u \in Registered(task))
             /\ u \in Registered(task) =>
                  /\ task'.unitsExpected[u] = task.unitsExpected[u]
                  /\ task'.unitsConsumed[u] = task.unitsConsumed[u]]_vars

\* expect 100, consume 30, consume 20: 50/100, reported as 50.000000 %.
C8_Witness ==
    /\ op = "reportUnit"
    /\ raised = None
    /\ input.unit = "rows"
    /\ task.unitsExpected["rows"] = 100
    /\ task.unitsConsumed["rows"] = 50
    /\ Val(ret).consumed = 50
    /\ Val(ret).expected = 100
    /\ Val(ret).percent = [negative |-> FALSE, whole |-> 50, micro |-> 0]
    /\ "bytes" \in Registered(task)
    /\ task.unitsConsumed["bytes"] > task.unitsExpected["bytes"]

RECURSIVE Lines(_)
\* The texts of a list one after the other, a newline between two of them.
Lines(list) ==
    IF Len(list) = 0 THEN <<>>
    ELSE IF Len(list) = 1 THEN list[1]
    ELSE Lines(SubSeq(list, 1, Len(list) - 1)) \o <<"\n">> \o list[Len(list)]

\* The strings a message stands for: its elements, or the one string it is.
Elements(message) == IF message.list THEN message.items ELSE <<message.text>>

\* xs is ys followed by the elements of zs, each one an element of its own.
Extends(xs, ys, zs) ==
    /\ Len(xs) = Len(ys) + Len(zs)
    /\ \A i \in 1 .. Len(ys) : xs[i] = ys[i]
    /\ \A i \in 1 .. Len(zs) : xs[Len(ys) + i] = zs[i]

\* C9: a warning(m) that returns has appended the elements of m (m itself
\* when it is a single string) to warnings, in order, after those present,
\* has left errors alone and has emitted one line, whose message is the
\* elements joined by newlines; error(m) likewise, for errors.  A sink that
\* shows lines received that one line; False and None received nothing.
C9_WarningErrorAppend ==
    [][(op' \in {"warning", "error"} /\ raised' = None) =>
        /\ op' = "warning" =>
             /\ Extends(task'.warnings, task.warnings, Elements(input'.message))
             /\ task'.errors = task.errors
        /\ op' = "error" =>
             /\ Extends(task'.errors, task.errors, Elements(input'.message))
             /\ task'.warnings = task.warnings
        /\ Len(emitted') = 1
        /\ emitted'[1].message = Some(Lines(Elements(input'.message)))
        /\ Len(sinkOut') = (IF SinkShows THEN 1 ELSE 0)
        /\ \A i \in 1 .. Len(sinkOut') : sinkOut'[i].text = emitted'[i]]_vars

\* warning(["a", "b"]) on a task that had one warning: one line "a\nb" went
\* to the callback.
C9_Witness ==
    /\ op = "warning"
    /\ raised = None
    /\ input.message.list
    /\ input.message.items = <<<<"a">>, <<"b">>>>
    /\ task.warnings = <<<<"b">>, <<"a">>, <<"b">>>>
    /\ Len(sinkOut) = 1
    /\ sinkOut[1].text.message = Some(<<"a", "\n", "b">>)

\* C10: collect(other) sets errors to the old errors followed by other's
\* errors, changes no other attribute of the task, emits no line and
\* returns.
C10_CollectOnlyErrors ==
    [][op' = "collect" =>
        /\ Extends(task'.errors, task.errors, input'.other)
        /\ [task' EXCEPT !.errors = task.errors] = task
        /\ emitted' = <<>>
        /\ sinkOut' = <<>>
        /\ raised' = None]_vars

\* collect of ["b", "a"] into a task with errors ["a"] and a warning.
C10_Witness ==
    /\ op = "collect"
    /\ input.other = <<<<"b">>, <<"a">>>>
    /\ task.errors = <<<<"a">>, <<"b">>, <<"a">>>>
    /\ task.warnings # <<>>
    /\ task.status = "BEGIN"

\* The methods that call doLog.
Emitting == {"__enter__", "__exit__", "info", "warning", "error"}

\* C11: a log sink of none of the recognised forms is a configuration
\* error.  Constructing the task succeeds; every call that attempts an
\* emission on it (Open, info, warning, error, Close), the first one
\* included, raises that error (RuntimeError); on a recognised form no call
\* raises it.
C11_InvalidSinkFailsAtEmission ==
    /\ op = "__init__" => raised = None
    /\ (task.logMethod = "other" /\ op \in Emitting) => raised = Some("RuntimeError")
    /\ task.logMethod # "other" => raised # Some("RuntimeError")

\* C18: reportUnit on an opened task, for a registered unit type whose
\* expected count is zero, returns a progress line.
C18_ReportZeroExpected ==
    (/\ op = "reportUnit"
     /\ HasStatus(task)
     /\ input.unit \in Registered(task)
     /\ task.unitsExpected[input.unit] = 0) =>
        /\ raised = None
        /\ ret # None

\* C19: unitsExpected and unitsConsumed have the same unit types as keys,
\* after any calls of expectUnits and consumeUnits, failed ones included.
C19_SameUnitTypes ==
    DOMAIN task.unitsExpected = DOMAIN task.unitsConsumed

\* consumeUnits("rows", 20) failed on a task that registered only "bytes",
\* of which it had consumed some.
C19_Witness ==
    /\ op = "consumeUnits"
    /\ raised = Some("KeyError")
    /\ input.unitType = "rows"
    /\ input.unitCount = 20
    /\ DOMAIN task.unitsExpected = {"bytes"}
    /\ DOMAIN task.unitsConsumed = {"bytes"}
    /\ task.unitsConsumed["bytes"] = 100

\* C20: warning and error emit before they accumulate.  A call on a task
\* that cannot be rendered (never opened), or whose sink is of no
\* recognised form, or whose sink raises, raises and leaves warnings and
\* errors (the whole task) as they were; warnings or errors change only in
\* a call that returned after handing its one line to the sink.
C20_EmitBeforeAccumulate ==
    [][op' \in {"warning", "error"} =>
        /\ ~CanStr(task) => raised' = Some("AttributeError")
        /\ (CanStr(task) /\ task.logMethod = "other") => raised' = Some("RuntimeError")
        /\ raised' # None =>
             /\ task'.warnings = task.warnings
             /\ task'.errors = task.errors
             /\ task' = task
             /\ emitted' = <<>>
        /\ (task'.warnings # task.warnings \/ task'.errors # task.errors) =>
             /\ raised' = None
             /\ Len(emitted') = 1
             /\ emitted'[1].message = Some(Lines(Elements(input'.message)))
             /\ SinkShows => (Len(sinkOut') = 1 /\ sinkOut'[1].text = emitted'[1])]_vars

\* error(["a", "b"]) on an opened task whose callback raised: the two
\* errors it had are all it has.
C20_Witness ==
    /\ op = "error"
    /\ raised = Some("SinkError")
    /\ input.message.list
    /\ input.message.items = <<<<"a">>, <<"b">>>>
    /\ task.status = "BEGIN"
    /\ task.errors = <<<<"b">>, <<"a">>>>
    /\ task.warnings # <<>>

\* The names of the two operand artifacts of the task.
ArgsName == <<"task", task.id_, ".args.json">>
KwargsName == <<"task", task.id_, ".kwargs.json">>

\* The files written by the last call are the two operand artifacts.
TwoArtifacts ==
    /\ Cardinality(written) = 2
    /\ {f.name : f \in written} = {ArgsName, KwargsName}

SansRaises(t) == [Str(t) EXCEPT !.raises = None]

\* C12: round trip.  A task that renders, in any state the other calls
\* lead to, is made a record and the record is loaded by fromJSON: the
\* load returns, the task loaded renders, and its line is that of the
\* original but for the RAISES clause.
C12_RoundTripRenders ==
    [][(op' = "fromJSON" /\ input'.obj = ToRecord(task) /\ CanStr(task)) =>
        /\ raised' = None
        /\ CanStr(task')
        /\ SansRaises(task') = SansRaises(task)]_vars

\* C14: after the Open of a task constructed in a parent task, parent_id
\* is the id of that parent; constructed without one, parent_id is None.
C14_ParentIdIsParentsId ==
    (op = "__enter__" /\ raised = None) =>
        IF task.parent # None
        THEN task.parent_id # None /\ task.parent_id = Val(task.parent).id_
        ELSE task.parent_id = None

\* C16 as claimed: the exception record is set exactly when the most recent
\* Close was on a failing path; a task that is BEGIN, or was closed
\* normally, has none.
C16_ExceptionIffLastCloseFailed ==
    [][/\ op' = "__exit__" => ((task'.exception # None) <=> (input'.exc_type # None))
       /\ op' = "__enter__" => task'.exception = None
       /\ task'.status = "BEGIN" => task'.exception = None
       /\ op' \notin {"__enter__", "__exit__"} =>
            ((task'.exception # None) <=> (task.exception # None))]_vars

\* C16 (amended): a Close on a failing path stores that failure as the
\* exception record, and no other call among Open, Close on the normal
\* path, arguments, returns, expectUnits, consumeUnits, reportUnit, info,
\* warning, error and collect changes the record.  So the record is set
\* exactly when some Close of the task so far was on a failing path: a task
\* opened again after a failure is BEGIN, and may be closed normally, with
\* the record of that failure.
C16_ExceptionSinceFailedClose ==
    [][IF op' = "__exit__" /\ input'.exc_type # None
       THEN task'.exception = Some([exc_type  |-> input'.exc_type,
                                    exc_value |-> input'.exc_value,
                                    traceback |-> input'.traceback])
       ELSE task'.exception = task.exception]_vars

\* A task that failed, was opened again and closed normally: it is DONE and
\* holds the failure.
C16_Witness ==
    /\ op = "__exit__"
    /\ input.exc_type = None
    /\ raised = None
    /\ task.status = "DONE"
    /\ task.exception # None
    /\ Val(task.exception).exc_type = Some("ValueError")

\* xs is the beginning of ys.
IsPrefix(xs, ys) == Len(xs) <= Len(ys) /\ SubSeq(ys, 1, Len(xs)) = xs

\* The calls that are to leave warnings and errors as they are.
NotAccumulating ==
    {"__enter__", "__exit__", "arguments", "returns", "expectUnits",
     "consumeUnits", "reportUnit", "info"}

\* C17 as claimed: over every call, fromJSON included, warnings and errors
\* before the call are the beginning of warnings and errors after it, and
\* they are unchanged by the calls that do not accumulate.
C17_AppendOnly ==
    [][/\ IsPrefix(task.warnings, task'.warnings)
       /\ IsPrefix(task.errors, task'.errors)
       /\ op' \in NotAccumulating =>
            (task'.warnings = task.warnings /\ task'.errors = task.errors)]_vars

\* C17 (amended): over every call but fromJSON, warnings and errors before
\* the call are the beginning of warnings and errors after it, and they are
\* unchanged by Open, Close, arguments, returns, expectUnits, consumeUnits,
\* reportUnit and info.  fromJSON replaces both by the lists of the record
\* (and leaves both when it raises): it may shorten or clear them.
C17_AppendOnlyButLoad ==
    [][/\ op' # "fromJSON" =>
            /\ IsPrefix(task.warnings, task'.warnings)
            /\ IsPrefix(task.errors, task'.errors)
       /\ op' \in NotAccumulating =>
            (task'.warnings = task.warnings /\ task'.errors = task.errors)
       /\ op' = "fromJSON" =>
            IF raised' = None
            THEN /\ task'.warnings = input'.obj.warnings
                 /\ task'.errors = input'.obj.errors
            ELSE /\ task'.warnings = task.warnings
                 /\ task'.errors = task.errors]_vars

\* The record of the task that failed was loaded into a task in its scope,
\* constructed in a parent: it has that task's one warning and no error.
C17_Witness ==
    /\ op = "fromJSON"
    /\ raised = None
    /\ depth = 1
    /\ task.parent # None
    /\ task.warnings = <<<<"w">>>>
    /\ task.errors = <<>>
    /\ task.id_ = Some(5)

\* The purpose as C15 has it rendered: whole up to 160 characters, else
\* its first 156 characters and the four of the marker.
ClaimedPurpose(text) ==
    IF Len(text) <= 160 THEN text
    ELSE SubSeq(text, 1, 156) \o <<" ", ".", ".", ".">>

\* C15: every line a call emits, and every progress line reportUnit
\* returns, shows a purpose of at most 160 characters whole and a longer
\* one as its first 156 characters and a marker of four, 160 in all; the
\* purpose kept in the task is not changed by that.
C15_PurposeCutBeyondLimit ==
    [][/\ \A i \in 1 .. Len(emitted') :
            emitted'[i].self.purpose = Some(ClaimedPurpose(Val(task.purpose)))
       /\ (op' = "reportUnit" /\ raised' = None) =>
            Val(ret').purpose = Some(ClaimedPurpose(Val(task.purpose)))
       /\ task'.purpose = task.purpose]_vars

====
